---- MODULE Spec2Model ----
(***************************************************************************)
(* Model of the daily-report application (daily_report_demo.py and its     *)
(* earlier revision daily-report-app/daily_report_demo.py): the reports    *)
(* table, the submit handler, the weekly view with its delete, spreadsheet *)
(* and document outputs.                                                   *)
(*                                                                         *)
(* Representation.  A text is a sequence of pieces (TLA+ strings); white   *)
(* space, quotes, commas, brackets and digits are pieces of their own, so  *)
(* strip, split, join, str(dict), json.dumps and json.loads are computed   *)
(* piece by piece.  A date is <<year, month, day>>.  A Python dict is a    *)
(* sequence of [key, val] records in insertion order.                      *)
(***************************************************************************)
EXTENDS Integers, Sequences, FiniteSets, TLC

\* reports: the rows of the reports table, in storage order
\* lastOp: the kind of the last script run; before: the table when it began
\* form: the report form it submitted; selected: the delete options it had chosen
\* page: what it left on the page
\* schema: the columns of the reports table, <<>> while there is no table
\* In the specifications of a script or a function, form is the input of the
\* run and page.events is what the run did, step by step.
VARIABLES reports, lastOp, before, form, selected, page, schema

vars == <<reports, lastOp, before, form, selected, page, schema>>

(* ----------------------------- bounds --------------------------------- *)
\* most rows the table holds
MaxRows == 2
\* leading tasks of a day whose input is chosen independently (Form specification)
MaxVaried == 1
\* most rows of the first sheet of an imported workbook
MaxSheetRows == 3

(* ------------------------- generic helpers ---------------------------- *)
Range(s) == {s[i] : i \in 1..Len(s)}

RECURSIVE Concat(_)
Concat(ss) == IF ss = <<>> THEN <<>> ELSE Head(ss) \o Concat(Tail(ss))

RECURSIVE JoinWith(_, _)
\* sep.join(parts)
JoinWith(sep, parts) ==
  IF parts = <<>> THEN <<>>
  ELSE IF Len(parts) = 1 THEN parts[1]
  ELSE parts[1] \o sep \o JoinWith(sep, Tail(parts))

Whitespace == {" ", "\n", "\t"}

RECURSIVE LStrip(_)
LStrip(s) == IF s # <<>> /\ Head(s) \in Whitespace THEN LStrip(Tail(s)) ELSE s

RECURSIVE RStrip(_)
RStrip(s) ==
  IF s # <<>> /\ s[Len(s)] \in Whitespace THEN RStrip(SubSeq(s, 1, Len(s) - 1)) ELSE s

\* str.strip()
Strip(s) == RStrip(LStrip(s))

RECURSIVE SplitAcc(_, _, _)
SplitAcc(s, seps, cur) ==
  IF s = <<>> THEN <<cur>>
  ELSE IF Head(s) \in seps THEN <<cur>> \o SplitAcc(Tail(s), seps, <<>>)
  ELSE SplitAcc(Tail(s), seps, Append(cur, Head(s)))

\* str.split(sep): every separator piece cuts, empty parts are kept
SplitOn(s, sep) == SplitAcc(s, {sep}, <<>>)

\* str.split(): cut at runs of white space, empty parts are dropped
SplitWs(s) == SelectSeq(SplitAcc(s, Whitespace, <<>>), LAMBDA p : p # <<>>)

\* SQL NULL / Python None in a text column
None == <<"<None>">>

(* --------------------------- calendar --------------------------------- *)
IsLeap(y) == (y % 4 = 0) /\ ((y % 100 # 0) \/ (y % 400 = 0))

DaysInMonth(y, m) ==
  IF m = 2 THEN (IF IsLeap(y) THEN 29 ELSE 28)
  ELSE IF m \in {4, 6, 9, 11} THEN 30 ELSE 31

RECURSIVE DaysBeforeMonth(_, _)
DaysBeforeMonth(y, m) ==
  IF m = 1 THEN 0 ELSE DaysBeforeMonth(y, m - 1) + DaysInMonth(y, m - 1)

DaysBeforeYear(y) ==
  (y - 1) * 365 + ((y - 1) \div 4) - ((y - 1) \div 100) + ((y - 1) \div 400)

\* proleptic Gregorian ordinal of a date, 0001-01-01 (a Monday) being 1
ToOrdinal(d) == DaysBeforeYear(d[1]) + DaysBeforeMonth(d[1], d[2]) + d[3]

\* Monday = 0 .. Sunday = 6
Weekday(d) == (ToOrdinal(d) + 6) % 7

DayNames ==
  <<"Monday", "Tuesday", "Wednesday", "Thursday", "Friday", "Saturday", "Sunday">>

\* date.strftime("%A")
DayName(d) == DayNames[Weekday(d) + 1]

Week1MondayFrom(jan1, firstweekday) ==
  IF firstweekday > 3 THEN jan1 - firstweekday + 7 ELSE jan1 - firstweekday

Week1MondayOf(jan1) == Week1MondayFrom(jan1, (jan1 + 6) % 7)

\* ordinal of the Monday that starts ISO week 1 of year y
IsoWeek1Monday(y) == Week1MondayOf(ToOrdinal(<<y, 1, 1>>))

IsoFrom(y, today, week) ==
  IF week < 0
    THEN [year |-> y - 1, week |-> ((today - IsoWeek1Monday(y - 1)) \div 7) + 1]
  ELSE IF week >= 52 /\ today >= IsoWeek1Monday(y + 1)
    THEN [year |-> y + 1, week |-> 1]
  ELSE [year |-> y, week |-> week + 1]

IsoOf(y, today) == IsoFrom(y, today, (today - IsoWeek1Monday(y)) \div 7)

\* date.isocalendar(): [year, week]
IsoCalendar(d) == IsoOf(d[1], ToOrdinal(d))

\* df["Date"].dt.isocalendar().week : the week number alone, the ISO year is dropped
Week(d) == IsoCalendar(d).week

(* ----------------------- Python values and JSON ----------------------- *)
EmptyDict == [t |-> "dict", v |-> <<>>]

Keys(d) == [i \in 1..Len(d.v) |-> d.v[i].key]

HasKey(d, k) == \E i \in 1..Len(d.v) : d.v[i].key = k

\* d[k] = v : an existing key keeps its place, a new key goes last
DictSet(d, k, val) ==
  IF \E i \in 1..Len(d.v) : d.v[i].key = k
    THEN [t |-> "dict",
          v |-> [i \in 1..Len(d.v) |->
                   IF d.v[i].key = k THEN [key |-> k, val |-> val] ELSE d.v[i]]]
    ELSE [t |-> "dict", v |-> Append(d.v, [key |-> k, val |-> val])]

\* d.get(k, default)
DictGet(d, k, default) ==
  IF \E i \in 1..Len(d.v) : d.v[i].key = k
    THEN d.v[CHOOSE i \in 1..Len(d.v) : d.v[i].key = k].val
    ELSE default

RECURSIVE Indent(_)
Indent(n) == IF n = 0 THEN <<>> ELSE <<" ">> \o Indent(n - 1)

\* the line break json.dumps(indent=1) puts before an element at depth n
Break(pretty, n) == IF pretty THEN <<"\n">> \o Indent(n) ELSE <<>>

ItemSep(pretty) == IF pretty THEN <<",">> ELSE <<",", " ">>

RECURSIVE DumpsAt(_, _, _)
\* json.dumps(x) for pretty = FALSE, json.dumps(x, indent=1) for pretty = TRUE
DumpsAt(x, pretty, level) ==
  IF x.t = "str" THEN <<"\"">> \o x.v \o <<"\"">>
  ELSE IF x.v = <<>> THEN (IF x.t = "list" THEN <<"[", "]">> ELSE <<"{", "}">>)
  ELSE IF x.t = "list" THEN
    <<"[">>
      \o JoinWith(ItemSep(pretty),
                  [i \in 1..Len(x.v) |->
                     Break(pretty, level + 1) \o DumpsAt(x.v[i], pretty, level + 1)])
      \o Break(pretty, level) \o <<"]">>
  ELSE
    <<"{">>
      \o JoinWith(ItemSep(pretty),
                  [i \in 1..Len(x.v) |->
                     Break(pretty, level + 1) \o <<"\"">> \o x.v[i].key \o <<"\"", ":", " ">>
                       \o DumpsAt(x.v[i].val, pretty, level + 1)])
      \o Break(pretty, level) \o <<"}">>

\* repr(str): single quotes, unless the text holds ' and no "
ReprStr(t) ==
  IF "'" \in Range(t) /\ "\"" \notin Range(t) THEN <<"\"">> \o t \o <<"\"">>
  ELSE <<"'">>
         \o Concat([i \in 1..Len(t) |-> IF t[i] = "'" THEN <<"\\", "'">> ELSE <<t[i]>>])
         \o <<"'">>

RECURSIVE PyStr(_)
\* str(x) of a dict, list or string element: the Python literal, not JSON
PyStr(x) ==
  IF x.t = "str" THEN ReprStr(x.v)
  ELSE IF x.t = "list" THEN
    <<"[">> \o JoinWith(<<",", " ">>, [i \in 1..Len(x.v) |-> PyStr(x.v[i])]) \o <<"]">>
  ELSE
    <<"{">> \o JoinWith(<<",", " ">>,
                 [i \in 1..Len(x.v) |->
                    ReprStr(x.v[i].key) \o <<":", " ">> \o PyStr(x.v[i].val)])
      \o <<"}">>

\* an encoder that writes the Python literal instead of JSON
JsonDumpsRepr(x) == PyStr(x)

JsonDumps(x) == DumpsAt(x, FALSE, 0)

JsonDumpsIndent(x) == DumpsAt(x, TRUE, 0)

ParseFail == [ok |-> FALSE, val |-> [t |-> "dict", v |-> <<>>], rest |-> <<>>]

RECURSIVE IndexOf(_, _, _)
\* first position >= i of piece c in s, 0 when there is none
IndexOf(s, c, i) ==
  IF i > Len(s) THEN 0 ELSE IF s[i] = c THEN i ELSE IndexOf(s, c, i + 1)

StringUpTo(s, j) ==
  IF j = 0 THEN ParseFail
  ELSE [ok |-> TRUE, val |-> [t |-> "str", v |-> SubSeq(s, 1, j - 1)],
        rest |-> SubSeq(s, j + 1, Len(s))]

\* a JSON string after its opening double quote
ParseString(s) == StringUpTo(s, IndexOf(s, "\"", 1))

RECURSIVE ParseValue(_), ValueAt(_), ArrayAt(_), ObjectAt(_)
RECURSIVE ParseItems(_, _), ItemsAfter(_, _), ItemsNext(_, _, _)
RECURSIVE ParseMembers(_, _), MemberColon(_, _), MemberValue(_, _, _)
RECURSIVE MemberAfter(_, _, _), MemberNext(_, _, _, _)

\* one JSON value at the head of s: a string, an array or an object
ParseValue(s) == ValueAt(LStrip(s))

ValueAt(s) ==
  IF s = <<>> THEN ParseFail
  ELSE IF Head(s) = "\"" THEN ParseString(Tail(s))
  ELSE IF Head(s) = "[" THEN ArrayAt(LStrip(Tail(s)))
  ELSE IF Head(s) = "{" THEN ObjectAt(LStrip(Tail(s)))
  ELSE ParseFail

ArrayAt(s) ==
  IF s # <<>> /\ Head(s) = "]"
    THEN [ok |-> TRUE, val |-> [t |-> "list", v |-> <<>>], rest |-> Tail(s)]
    ELSE ParseItems(s, <<>>)

ObjectAt(s) ==
  IF s # <<>> /\ Head(s) = "}"
    THEN [ok |-> TRUE, val |-> [t |-> "dict", v |-> <<>>], rest |-> Tail(s)]
    ELSE ParseMembers(LStrip(s), [t |-> "dict", v |-> <<>>])

ParseItems(s, acc) == ItemsAfter(ParseValue(s), acc)

ItemsAfter(r, acc) ==
  IF r.ok THEN ItemsNext(r.val, LStrip(r.rest), acc) ELSE ParseFail

ItemsNext(val, t, acc) ==
  IF t = <<>> THEN ParseFail
  ELSE IF Head(t) = "," THEN ParseItems(Tail(t), Append(acc, val))
  ELSE IF Head(t) = "]"
    THEN [ok |-> TRUE, val |-> [t |-> "list", v |-> Append(acc, val)], rest |-> Tail(t)]
  ELSE ParseFail

ParseMembers(s, acc) ==
  IF s # <<>> /\ Head(s) = "\"" THEN MemberColon(ParseString(Tail(s)), acc)
  ELSE ParseFail

MemberColon(k, acc) ==
  IF k.ok THEN MemberValue(k.val.v, LStrip(k.rest), acc) ELSE ParseFail

MemberValue(key, c, acc) ==
  IF c # <<>> /\ Head(c) = ":" THEN MemberAfter(key, ParseValue(Tail(c)), acc)
  ELSE ParseFail

MemberAfter(key, r, acc) ==
  IF r.ok THEN MemberNext(key, r.val, LStrip(r.rest), acc) ELSE ParseFail

MemberNext(key, val, t, acc) ==
  IF t = <<>> THEN ParseFail
  ELSE IF Head(t) = "," THEN ParseMembers(LStrip(Tail(t)), DictSet(acc, key, val))
  ELSE IF Head(t) = "}"
    THEN [ok |-> TRUE, val |-> DictSet(acc, key, val), rest |-> Tail(t)]
  ELSE ParseFail

WholeText(r) == IF r.ok /\ LStrip(r.rest) = <<>> THEN r ELSE ParseFail

\* json.loads(s): ok = FALSE stands for the exception it raises
JsonLoads(s) == WholeText(ParseValue(s))

(* ------------------------ numbers and dates as text ------------------- *)
DigitPieces == <<"0", "1", "2", "3", "4", "5", "6", "7", "8", "9">>

RECURSIVE NatToText(_)
\* str(n) for n >= 0
NatToText(n) ==
  IF n < 10 THEN <<DigitPieces[n + 1]>>
  ELSE NatToText(n \div 10) \o <<DigitPieces[(n % 10) + 1]>>

IsDigit(c) == \E i \in 1..10 : DigitPieces[i] = c

DigitVal(c) == (CHOOSE i \in 1..10 : DigitPieces[i] = c) - 1

RECURSIVE DigitsVal(_, _)
DigitsVal(t, acc) ==
  IF t = <<>> THEN acc ELSE DigitsVal(Tail(t), acc * 10 + DigitVal(Head(t)))

IntOfStripped(u) ==
  IF u # <<>> /\ \A i \in 1..Len(u) : IsDigit(u[i])
    THEN [ok |-> TRUE, val |-> DigitsVal(u, 0)]
    ELSE [ok |-> FALSE, val |-> 0]

\* int(t): ok = FALSE stands for ValueError
ParseInt(t) == IntOfStripped(Strip(t))

Pad2(n) == IF n < 10 THEN <<"0">> \o NatToText(n) ELSE NatToText(n)

\* date.strftime("%Y-%m-%d")
FormatDate(d) == NatToText(d[1]) \o <<"-">> \o Pad2(d[2]) \o <<"-">> \o Pad2(d[3])

\* pandas NaT
NaT == <<0, 0, 0>>

DateOfInts(y, m, d) == IF y.ok /\ m.ok /\ d.ok THEN <<y.val, m.val, d.val>> ELSE NaT

DateOfParts(parts) ==
  IF Len(parts) = 3
    THEN DateOfInts(ParseInt(parts[1]), ParseInt(parts[2]), ParseInt(parts[3]))
    ELSE NaT

\* pd.to_datetime of one stored date: NULL and blank give NaT
ToDatetime(t) ==
  IF t = None \/ Strip(t) = <<>> THEN NaT ELSE DateOfParts(SplitOn(t, "-"))

(* ------------------------- the table's schema ------------------------- *)
\* the columns of CREATE TABLE reports
Columns ==
  <<"date", "day", "name", "completed_tasks", "incomplete_tasks",
    "organizing_details", "notes", "subtasks">>

\* a database is [schema, rows]; a row is a record over the columns of the schema
\* CREATE TABLE that first drops what is stored
CreateFresh(db) == [schema |-> Columns, rows |-> <<>>]

\* CREATE TABLE IF NOT EXISTS reports (...)
CreateTable(db) ==
  IF db.schema = <<>> THEN [schema |-> Columns, rows |-> <<>>] ELSE db

\* ALTER TABLE reports ADD COLUMN subtasks TEXT, unless the column is there:
\* the rows stored before read NULL in the new column
AddSubtasks(db) ==
  IF "subtasks" \in Range(db.schema) THEN db
  ELSE [schema |-> Append(db.schema, "subtasks"),
        rows |-> [i \in 1..Len(db.rows) |-> ("subtasks" :> None) @@ db.rows[i]]]

init_db(db) == AddSubtasks(CreateTable(db))

(* --------------------------- the schedule ----------------------------- *)
SCHEDULE ==
  [Monday    |-> << <<"Stock Screens">>, <<"Screen Mesh">>, <<"Spectra">>, <<"LTC">>,
                    <<"Organizing Materials">> >>,
   Tuesday   |-> << <<"Vision">>, <<"RPM Punched">>, <<"RPM Stainless">>,
                    <<"Organizing Materials">> >>,
   Wednesday |-> << <<"SIL Plastic">>, <<"SIL Fastners">>, <<"Schelgal">>,
                    <<"Shop Supplies">>, <<"Organizing Materials">> >>,
   Thursday  |-> << <<"Amesbury Truth">>, <<"Twin/Multipoint Keepers">>,
                    <<"Stock Screens">>, <<"Foot Locks">>, <<"Organizing Materials">> >>,
   Friday    |-> << <<"Mini Blinds">>, <<"Foam Concept">>, <<"Cardboard">>,
                    <<"Organizing Materials">> >>]

\* SCHEDULE.get(day_name, [])
TasksOf(day) == IF day \in DOMAIN SCHEDULE THEN SCHEDULE[day] ELSE <<>>

default_subs ==
  << <<"Counted and recorded on Excel">>,
     <<"Sent file to managers via email">>,
     <<"Provided physical copies to managers">>,
     <<"Arranged material in its location">> >>

ReporterName == <<"Simarjit", " ", "Kaur">>

OrganizingTask == <<"Organizing Materials">>

(* ------------------------- the report form ---------------------------- *)
\* A form input f: [date, inputs, organizing, notes]; inputs[i] is what the user
\* entered for the i-th task of the day: [done, checks, reason], checks being the
\* positions of the ticked sub-items and reason the text typed in the reason box.

\* chosen: the ticked sub-items in checklist order
Chosen(labels, checks) ==
  SelectSeq(labels, LAMBDA sub : \E j \in checks : labels[j] = sub)

\* all(flags)
AllFlags(checks) == \A j \in 1..Len(default_subs) : j \in checks

StrList(texts) == [t |-> "list", v |-> [j \in 1..Len(texts) |-> [t |-> "str", v |-> texts[j]]]]

\* a loop step that asks no reason when sub-items are missing
DoneStepNoReason(task, in, acc, labels) ==
  [completed |-> Append(acc.completed, task),
   task_subtasks |-> DictSet(acc.task_subtasks, task, StrList(Chosen(labels, in.checks))),
   incomplete |-> acc.incomplete]

\* the body of the loop for a task marked "Yes"
DoneStep(task, in, acc, labels) ==
  [completed |-> Append(acc.completed, task),
   task_subtasks |-> DictSet(acc.task_subtasks, task, StrList(Chosen(labels, in.checks))),
   incomplete |-> IF ~AllFlags(in.checks)
                    THEN DictSet(acc.incomplete, task, [t |-> "str", v |-> in.reason])
                    ELSE acc.incomplete]

\* the body of the loop for a task marked "No"
NotDoneStep(task, in, acc) ==
  [completed |-> acc.completed,
   task_subtasks |-> acc.task_subtasks,
   incomplete |-> DictSet(acc.incomplete, task, [t |-> "str", v |-> in.reason])]

TaskStep(task, in, acc, labels) ==
  IF in.done THEN DoneStep(task, in, acc, labels) ELSE NotDoneStep(task, in, acc)

RECURSIVE TaskLoop(_, _, _, _, _)
\* the loop over the day's tasks: [completed, incomplete, task_subtasks]
TaskLoop(tasks, inputs, i, acc, labels) ==
  IF i > Len(tasks) THEN acc
  ELSE TaskLoop(tasks, inputs, i + 1, TaskStep(tasks[i], inputs[i], acc, labels), labels)

\* completed, incomplete and task_subtasks as the form leaves them
BuildReport(f) ==
  TaskLoop(TasksOf(DayName(f.date)), f.inputs, 1,
           [completed |-> <<>>,
            incomplete |-> [t |-> "dict", v |-> <<>>],
            task_subtasks |-> [t |-> "dict", v |-> <<>>]],
           default_subs)

\* the first check of the submit handler: of date, day, name, completed and
\* incomplete only an empty completed list can trip it
RequiredMissing(b) == b.completed = <<>>

\* a check for the empty text alone, without strip()
IsEmptyOnly(v) == v = <<>>

\* not v.strip()
IsBlank(v) == Strip(v) = <<>>

\* any(not v.strip() for v in incomplete.values())
ReasonMissing(b) == \E i \in 1..Len(b.incomplete.v) : IsBlank(b.incomplete.v[i].val.v)

\* st.session_state.get("organizing_details", ""): the box exists only when the
\* Organizing Materials task is marked done
OrganizingDetails(f, b) ==
  IF \E i \in 1..Len(b.completed) : b.completed[i] = OrganizingTask
    THEN f.organizing ELSE <<>>

\* "All completed" if not incomplete else str(incomplete)
IncompleteField(incomplete) ==
  IF incomplete.v = <<>> THEN <<"All", " ", "completed">> ELSE PyStr(incomplete)

\* the tuple bound to INSERT INTO reports VALUES (?,?,?,?,?,?,?,?)
RowOf(f, b) ==
  [date |-> FormatDate(f.date),
   day |-> <<DayName(f.date)>>,
   name |-> ReporterName,
   completed_tasks |-> JoinWith(<<",", " ">>, b.completed),
   incomplete_tasks |-> IncompleteField(b.incomplete),
   organizing_details |-> OrganizingDetails(f, b),
   notes |-> f.notes,
   subtasks |-> JsonDumps(b.task_subtasks)]

\* an insert that overwrites a stored row of the same date and reporter
UpsertRow(tbl, row) ==
  IF \E i \in 1..Len(tbl) : tbl[i].date = row.date /\ tbl[i].name = row.name
    THEN [i \in 1..Len(tbl) |->
            IF tbl[i].date = row.date /\ tbl[i].name = row.name THEN row ELSE tbl[i]]
    ELSE Append(tbl, row)

\* INSERT INTO reports: one more row at the end, whatever is stored already
InsertRow(tbl, row) == Append(tbl, row)

(* --------------------------- the weekly view -------------------------- *)
\* the check mark U+2714 and the bullet U+2022, characters outside Latin-1
CheckMark == "U+2714"
Bullet == "U+2022"

\* x or y
OrElse(x, y) == IF x = None \/ x = <<>> THEN y ELSE x

PrettyOrEmpty(r) == IF r.ok THEN JsonDumpsIndent(r.val) ELSE <<"{", "}">>

PrettyOrRaw(r, x) == IF r.ok THEN JsonDumpsIndent(r.val) ELSE x

\* a reader that hands back the stored text when it is no JSON
safe_json_pretty_raw(x) == PrettyOrRaw(JsonLoads(OrElse(x, <<"{", "}">>)), x)

safe_json_pretty(x) == PrettyOrEmpty(JsonLoads(OrElse(x, <<"{", "}">>)))

DfRowAt(r, Date) ==
  [date |-> r.date, day |-> r.day, name |-> r.name,
   completed_tasks |-> r.completed_tasks,
   incomplete_tasks |-> r.incomplete_tasks,
   organizing_details |-> r.organizing_details,
   notes |-> r.notes,
   subtasks |-> safe_json_pretty(r.subtasks),
   Date |-> Date,
   Week |-> IF Date = <<0, 0, 0>> THEN 0 ELSE Week(Date),
   Day |-> IF Date = <<0, 0, 0>> THEN None ELSE <<DayName(Date)>>]

\* one row of df after the Date, Week and Day columns are added and the subtasks
\* column is rewritten (Week = 0 and Day = None stand for <NA> and NaN)
DfRow(r) == DfRowAt(r, ToDatetime(r.date))

\* pd.read_sql("SELECT * FROM reports") with the derived columns
Df(tbl) == [i \in 1..Len(tbl) |-> DfRow(tbl[i])]

NotBlankCol(x) == x # None /\ Strip(x) # <<>>

\* the positions of df that df_clean keeps
CleanIndex(df) ==
  SelectSeq([i \in 1..Len(df) |-> i],
            LAMBDA i : NotBlankCol(df[i].date) /\ NotBlankCol(df[i].day)
                         /\ NotBlankCol(df[i].name))

NonBlankStripped(parts) ==
  SelectSeq([i \in 1..Len(parts) |-> Strip(parts[i])], LAMBDA t : t # <<>>)

\* [t.strip() for t in (x or "").split(",") if t.strip()]
CompletedList(x) == NonBlankStripped(SplitOn(OrElse(x, <<>>), ","))

\* f"{item}" of one element
ItemText(x) == IF x.t = "str" THEN x.v ELSE PyStr(x)

\* for item in items: the elements of a list, the keys of a dict, the pieces of a string
Iterate(x) ==
  IF x.t = "list" THEN [i \in 1..Len(x.v) |-> ItemText(x.v[i])]
  ELSE IF x.t = "dict" THEN [i \in 1..Len(x.v) |-> x.v[i].key]
  ELSE [i \in 1..Len(x.v) |-> <<x.v[i]>>]

\* subs.get(task, []) if isinstance(subs, dict) else []
ItemsOf(subs, task) ==
  IF subs.t = "dict" THEN Iterate(DictGet(subs, task, [t |-> "list", v |-> <<>>]))
  ELSE <<>>

ValueOrEmpty(r) == IF r.ok THEN r.val ELSE [t |-> "dict", v |-> <<>>]

\* json.loads(raw) if raw else {}, any exception giving {}
LoadPretty(raw) ==
  IF raw = None \/ raw = <<>> THEN [t |-> "dict", v |-> <<>>]
  ELSE ValueOrEmpty(JsonLoads(raw))

TaskLines(task, items) ==
  << <<CheckMark, " ">> \o task >>
    \o [j \in 1..Len(items) |-> <<" ", Bullet, " ">> \o items[j]]

PrettyLines(completed, subs) ==
  IF completed = <<>> THEN << <<"-">> >>
  ELSE Concat([i \in 1..Len(completed) |->
                 TaskLines(completed[i], ItemsOf(subs, completed[i]))])

pretty_completed(row) ==
  PrettyLines(CompletedList(row.completed_tasks), LoadPretty(row.subtasks))

DisplayOf(df, clean) ==
  [n \in 1..Len(clean) |->
     [index |-> clean[n] - 1,
      row |-> df[clean[n]],
      completed |-> pretty_completed(df[clean[n]])]]

\* the table shown by st.dataframe: the df_clean rows, each with its df index
\* and the "Completed Tasks" column
Display(df) == DisplayOf(df, CleanIndex(df))

(* ------------------------- document rendering ------------------------- *)
\* try: subs = json.loads(row["subtasks"]) / except Exception: subs = {}
LoadSubs(raw) == ValueOrEmpty(JsonLoads(raw))

IncompleteCells(r) ==
  IF r.ok /\ r.val.t = "dict" /\ r.val.v # <<>>
    THEN [i \in 1..Len(r.val.v) |->
            [k |-> "entry",
             s |-> <<"-", " ">> \o r.val.v[i].key \o <<":", " ">> \o ItemText(r.val.v[i].val)]]
    ELSE << [k |-> "dash", s |-> <<"-">>] >>

\* the "Incomplete Tasks" block: one entry per item of a non-empty decoded dict,
\* the dash otherwise and on any exception
IncompleteBlock(raw) == IncompleteCells(JsonLoads(raw))

TaskCells(task, items) ==
  << [k |-> "task", s |-> <<CheckMark, " ">> \o task] >>
    \o [j \in 1..Len(items) |-> [k |-> "item", s |-> <<Bullet, " ">> \o items[j]]]

CompletedCells(completed_tasks, subs) ==
  IF completed_tasks = <<>> THEN << [k |-> "dash", s |-> <<"-">>] >>
  ELSE Concat([i \in 1..Len(completed_tasks) |->
                 TaskCells(completed_tasks[i], ItemsOf(subs, completed_tasks[i]))])

\* the "Completed Tasks" block of one row
CompletedBlock(row) ==
  CompletedCells(CompletedList(row.completed_tasks), LoadSubs(row.subtasks))

\* the cells generate_pdf writes for one row of df; a row without a date is skipped
PdfRow(row) ==
  IF row.Date = <<0, 0, 0>> THEN <<>>
  ELSE
    << [k |-> "date", s |-> FormatDate(row.Date) \o <<" ", "(">> \o row.Day \o <<")">>],
       [k |-> "label", s |-> <<"Completed Tasks:">>] >>
    \o CompletedBlock(row)
    \o << [k |-> "label", s |-> <<"Organizing Details:">>],
          [k |-> "text", s |-> OrElse(row.organizing_details, <<"-">>)],
          [k |-> "label", s |-> <<"Incomplete Tasks:">>] >>
    \o IncompleteBlock(row.incomplete_tasks)
    \o << [k |-> "label", s |-> <<"Notes:">>],
          [k |-> "text", s |-> OrElse(row.notes, <<"-">>)],
          [k |-> "divider", s |-> <<>>] >>

\* the cells generate_pdf draws, in order, before FPDF.output encodes them
generate_pdf(df, week_no) ==
  << [k |-> "title",
      s |-> <<"Simarjit Kaur - Weekly Report (">>
              \o (IF week_no = 0 THEN <<"All Weeks">>
                  ELSE <<"Week", " ">> \o NatToText(week_no))
              \o <<")">>] >>
  \o Concat([i \in 1..Len(df) |-> PdfRow(df[i])])
  \o << [k |-> "footer", s |-> <<"Page">>] >>

(* -------------------------- spreadsheet export ------------------------ *)
ExportColumns ==
  <<"date", "day", "name", "completed_tasks", "incomplete_tasks",
    "organizing_details", "notes", "subtasks", "Date", "Day">>

\* one row of df.drop(columns=["Week"]) as its cells, in column order
SheetRow(r) ==
  <<r.date, r.day, r.name, r.completed_tasks, r.incomplete_tasks,
    r.organizing_details, r.notes, r.subtasks,
    IF r.Date = <<0, 0, 0>> THEN None ELSE FormatDate(r.Date), r.Day>>

\* df.drop(columns=["Week"]).to_excel(writer, sheet_name="All_Reports", index=False):
\* the whole frame on one sheet, the column names as its header row
ExcelAll(df) ==
  << [name |-> <<"All_Reports">>,
      header |-> ExportColumns,
      rows |-> [i \in 1..Len(df) |-> SheetRow(df[i])]] >>

(* ----------------------------- one script run ------------------------- *)
\* What a run leaves on the page: the messages and effects in the order they
\* happened, and the weekly tab's table, workbook and document when it was reached.
\* the week and day filter of the older revision's weekly tab; none in this one
NoFilter == [week_no |-> 0, day_fil |-> "All"]

WeeklyOf(df, events) ==
  [events |-> events,
   weekly |-> TRUE,
   display |-> Display(df),
   excel |-> ExcelAll(df),
   pdf |-> generate_pdf(df, 0),
   filter |-> NoFilter]

\* tab_weekly without a pressed delete button
WeeklyPage(tbl, events) ==
  IF tbl = <<>>
    THEN [events |-> Append(events, "info:no_records"), weekly |-> FALSE,
          display |-> <<>>, excel |-> <<>>, pdf |-> <<>>, filter |-> NoFilter]
    ELSE WeeklyOf(Df(tbl), events)

\* backup_to_git either returns (pushed, or nothing to back up) or raises
BackupOutcomes == {"returned", "raised"}

\* try: backup_to_git(...); st.info(...) / except Exception as e: st.error(...)
BackupEvents(outcome) ==
  IF outcome = "raised" THEN <<"backup", "error:backup_failed">>
  ELSE <<"backup", "info:backed_up">>

\* a handler that undoes the insert when the backup raises
SavedUnlessBackupFails(stored, outcome) ==
  IF outcome = "raised"
    THEN [reports |-> SubSeq(stored, 1, Len(stored) - 1),
          page |-> WeeklyPage(SubSeq(stored, 1, Len(stored) - 1),
                              <<"insert", "success:saved">> \o BackupEvents(outcome))]
    ELSE [reports |-> stored,
          page |-> WeeklyPage(stored, <<"insert", "success:saved">> \o BackupEvents(outcome))]

\* after the INSERT: the success message, the backup, then the weekly tab
Saved(stored, outcome) ==
  [reports |-> stored,
   page |-> WeeklyPage(stored, <<"insert", "success:saved">> \o BackupEvents(outcome))]

Rejected(tbl, message) ==
  [reports |-> tbl,
   page |-> [events |-> <<message>>, weekly |-> FALSE,
             display |-> <<>>, excel |-> <<>>, pdf |-> <<>>, filter |-> NoFilter]]

SubmitBuilt(tbl, f, b, outcome) ==
  IF RequiredMissing(b) THEN Rejected(tbl, "error:required")
  ELSE IF ReasonMissing(b) THEN Rejected(tbl, "error:reason")
  ELSE Saved(InsertRow(tbl, RowOf(f, b)), outcome)

\* the run in which the submit button of the report form is pressed
HandleSubmit(tbl, f, outcome) == SubmitBuilt(tbl, f, BuildReport(f), outcome)

\* the label of one option of the delete multiselect
RowLabel(index, row) ==
  <<"Row", " ", "#">> \o NatToText(index) \o <<":", " ">> \o FormatDate(row.Date)
    \o <<" ", "(">> \o row.Day \o <<")", " ", "-", " ">> \o row.name

\* int(label.split()[1].split(":")[0])
LabelIndex(label) == ParseInt(SplitOn(SplitWs(label)[2], ":")[1])

SameTriple(r, q) == r.date = q.date /\ r.day = q.day /\ r.name = q.name

\* DELETE FROM reports WHERE date = ? AND day = ? AND name = ?, once per row of to_delete
DeleteWhere(tbl, to_delete) ==
  SelectSeq(tbl, LAMBDA r : ~\E n \in 1..Len(to_delete) : SameTriple(r, to_delete[n]))

\* after the DELETEs: the success message and st.rerun()
Deleted(left) ==
  [reports |-> left, page |-> WeeklyPage(left, <<"delete", "success:deleted">>)]

\* a label that is no number ends the run with ValueError before any DELETE
DeleteParsed(tbl, df, parsed) ==
  IF \E n \in 1..Len(parsed) : ~parsed[n].ok
    THEN [reports |-> tbl,
          page |-> [events |-> <<"exception:ValueError">>, weekly |-> TRUE,
                    display |-> Display(df), excel |-> <<>>, pdf |-> <<>>,
                    filter |-> NoFilter]]
    ELSE Deleted(DeleteWhere(tbl, [n \in 1..Len(parsed) |-> df[parsed[n].val + 1]]))

LabelsAt(shown, picked) ==
  [n \in 1..Len(picked) |-> RowLabel(shown[picked[n]].index, shown[picked[n]].row)]

\* the labels of the options at the positions sel of the multiselect
SelectedLabels(shown, sel) ==
  LabelsAt(shown, SelectSeq([n \in 1..Len(shown) |-> n], LAMBDA n : n \in sel))

ParsedLabels(labels) == [n \in 1..Len(labels) |-> LabelIndex(labels[n])]

DeleteOn(tbl, df, sel) ==
  DeleteParsed(tbl, df, ParsedLabels(SelectedLabels(Display(df), sel)))

\* the run in which "Delete Selected Rows" is pressed with the options at the
\* positions sel chosen
HandleDelete(tbl, sel) == DeleteOn(tbl, Df(tbl), sel)

(* ------------------------------ inputs -------------------------------- *)
\* a Monday of ISO week 29 and a Tuesday of ISO week 30
WeekdayDates == {<<2025, 7, 14>>, <<2025, 7, 22>>}

\* a Saturday
WeekendDates == {<<2025, 7, 19>>}

Reasons == {<<>>, <<" ">>, <<"late">>}

\* what the user can enter for one task: the ticked sub-items drawn from
\* checkSets, the reason from reasons
PerTask(checkSets, reasons) ==
  {[done |-> TRUE, checks |-> c, reason |-> r] :
     c \in {x \in checkSets : ~AllFlags(x)}, r \in reasons}
  \cup {[done |-> TRUE, checks |-> c, reason |-> <<>>] : c \in {x \in checkSets : AllFlags(x)}}
  \cup {[done |-> FALSE, checks |-> {}, reason |-> r] : r \in reasons}

FormsOver(d, n, k, choices, orgs, notes) ==
  {[date |-> d,
    inputs |-> [i \in 1..n |-> IF i <= k THEN h[i] ELSE rest],
    organizing |-> o,
    notes |-> nt] :
     h \in [1..(IF k < n THEN k ELSE n) -> choices], rest \in choices, o \in orgs, nt \in notes}

\* the forms for date d in which the first k tasks are filled in independently
\* and all later tasks alike
FormsFor(d, k, choices, orgs, notes) ==
  FormsOver(d, Len(TasksOf(DayName(d))), k, choices, orgs, notes)

NoForm == [date |-> <<0, 0, 0>>, inputs |-> <<>>, organizing |-> <<>>, notes |-> <<>>]

\* rows written before the subtasks column held JSON: NULL after ALTER TABLE ADD
\* COLUMN, empty text, and the old "task: item, item" lines
LegacyRow(subtasks) ==
  [date |-> <<"2", "0", "2", "5", "-", "0", "7", "-", "1", "5">>,
   day |-> <<"Tuesday">>,
   name |-> <<"Simarjit", " ", "Kaur">>,
   completed_tasks |-> <<"Vision", ",", " ", "RPM Punched">>,
   incomplete_tasks |-> <<"RPM Stainless", ":", " ", "late">>,
   organizing_details |-> <<>>,
   notes |-> None,
   subtasks |-> subtasks]

LegacySubtasks ==
  {None, <<>>, <<"Vision", ":", " ", "Counted and recorded on Excel">>}

InitialTables == {<<>>} \cup {<<LegacyRow(x)>> : x \in LegacySubtasks}

(* ------------------------------ actions ------------------------------- *)
Init ==
  /\ reports \in InitialTables
  /\ lastOp = "start"
  /\ before = reports
  /\ form = NoForm
  /\ selected = {}
  /\ page = [events |-> <<>>, weekly |-> FALSE, display |-> <<>>, excel |-> <<>>,
             pdf |-> <<>>, filter |-> NoFilter]
  /\ schema = Columns

\* the state after one run: what it did to the table and what it left on the page
Ran(op, f, sel, h) ==
  /\ lastOp' = op
  /\ before' = reports
  /\ form' = f
  /\ selected' = sel
  /\ reports' = h.reports
  /\ page' = h.page
  /\ schema' = schema

\* a run that only shows the page for the date d of the date box
HandleView(tbl, d) ==
  IF TasksOf(DayName(d)) = <<>>
    THEN Rejected(tbl, "info:no_tasks")
    ELSE [reports |-> tbl, page |-> WeeklyPage(tbl, <<>>)]

View ==
  \E d \in WeekdayDates \cup WeekendDates : Ran("view", NoForm, {}, HandleView(reports, d))

Submit ==
  /\ Len(reports) < MaxRows
  /\ \E d \in WeekdayDates :
       \E f \in FormsFor(d, 0, PerTask({{1, 3}, {1, 2, 3, 4}}, Reasons), {<<"shelves">>}, {<<>>}) :
         \E outcome \in BackupOutcomes :
           Ran("submit", f, {}, HandleSubmit(reports, f, outcome))

Delete ==
  \E sel \in SUBSET (1..Len(CleanIndex(Df(reports)))) :
    /\ sel # {}
    /\ Ran("delete", NoForm, sel, HandleDelete(reports, sel))

Next == Submit \/ View \/ Delete

Spec == Init /\ [][Next]_vars

(* ------------- one filled-in form, submitted once (SpecForm) ---------- *)
\* the forms of the weekday dates in which the first MaxVaried tasks are filled
\* in independently
FormInputs ==
  UNION {FormsFor(d, MaxVaried,
                  PerTask({{}, {1, 3}, {1, 2, 3, 4}}, Reasons \cup {<<"can", "'", "t">>}),
                  {<<>>, <<"shelves">>}, {<<>>, <<"ok">>}) : d \in WeekdayDates}

InitForm ==
  /\ reports = <<>>
  /\ lastOp = "filled"
  /\ before = <<>>
  /\ form \in FormInputs
  /\ selected = {}
  /\ page = [events |-> <<>>, weekly |-> FALSE, display |-> <<>>, excel |-> <<>>,
             pdf |-> <<>>, filter |-> NoFilter]
  /\ schema = Columns

SubmitFilled ==
  /\ lastOp = "filled"
  /\ \E outcome \in BackupOutcomes :
       Ran("submit", form, {}, HandleSubmit(reports, form, outcome))

NextForm == SubmitFilled

SpecForm == InitForm /\ [][NextForm]_vars

(* ------- the older revision, daily-report-app/daily_report_demo.py ---- *)
subtasks_v1 ==
  << <<"Counted and recorded on Excel">>,
     <<"Sent file to managers through email">>,
     <<"Gave physical copies to managers">>,
     <<"Arranged the material to its location">> >>

BuildReportV1(f) ==
  TaskLoop(TasksOf(DayName(f.date)), f.inputs, 1,
           [completed |-> <<>>,
            incomplete |-> [t |-> "dict", v |-> <<>>],
            task_subtasks |-> [t |-> "dict", v |-> <<>>]],
           subtasks_v1)

\* pieces that stand for characters outside ASCII: the check mark, the bullet,
\* e with acute accent and the combining acute accent
NonAscii == {"U+2714", "U+2022", "U+00E9", "U+0301"}

\* unicodedata.normalize("NFKD", c) of one piece
Nfkd(c) == IF c = "U+00E9" THEN <<"e", "U+0301">> ELSE <<c>>

\* clean_text: "" for what is no string, else NFKD and the ASCII pieces alone
\* what .encode("ascii", "ignore") keeps of the normal form of one piece
AsciiOf(c) == SelectSeq(Nfkd(c), LAMBDA x : x \notin NonAscii)

FirstOfEach(parts) == [i \in 1..Len(parts) |-> parts[i][1]]

clean_text(text) ==
  IF text = None THEN <<>>
  ELSE FirstOfEach(SelectSeq([i \in 1..Len(text) |-> AsciiOf(text[i])],
                             LAMBDA a : a # <<>>))

\* f"{x}" of a column value
Fmt(x) == IF x = None THEN <<"None">> ELSE x

PrettyV1(r) == IF r.ok THEN JsonDumpsIndent(r.val) ELSE <<"<JSONDecodeError>">>

\* lambda x: json.dumps(json.loads(x), indent=1) if x else ""
SubtasksV1(x) ==
  IF x = None \/ x = <<>> THEN <<>> ELSE PrettyV1(JsonLoads(x))

DfRowV1At(r, Date) ==
  [date |-> r.date, day |-> r.day, name |-> r.name,
   completed_tasks |-> r.completed_tasks,
   incomplete_tasks |-> r.incomplete_tasks,
   organizing_details |-> r.organizing_details,
   notes |-> r.notes,
   subtasks |-> SubtasksV1(r.subtasks),
   Date |-> Date,
   Week |-> IF Date = <<0, 0, 0>> THEN 0 ELSE Week(Date),
   Day |-> IF Date = <<0, 0, 0>> THEN None ELSE <<DayName(Date)>>]

DfV1(tbl) == [i \in 1..Len(tbl) |-> DfRowV1At(tbl[i], ToDatetime(tbl[i].date))]

\* df[df["Week"] == week_no], then df_show[df_show["Day"] == day_fil] unless "All"
FilterWeekDay(df, week_no, day_fil) ==
  SelectSeq(df, LAMBDA r : r.Week = week_no /\ (day_fil = "All" \/ r.Day = <<day_fil>>))

RowTextV1(r) ==
  <<"Date: ">> \o Fmt(r.date) \o <<" | Day: ">> \o Fmt(r.day)
    \o <<"\n", "Completed Tasks: ">> \o Fmt(r.completed_tasks)
    \o <<"\n", "Incomplete Tasks: ">> \o Fmt(r.incomplete_tasks)
    \o <<"\n", "Organizing Details: ">> \o Fmt(r.organizing_details)
    \o <<"\n", "Sub-Tasks Done: ">> \o Fmt(r.subtasks)
    \o <<"\n", "Notes: ">> \o Fmt(r.notes)
    \o <<"\n", "----------------------------------------------------------------------">>

\* generate_pdf of the older revision: every text goes through clean_text
generate_pdf_v1(df, week_no) ==
  << [k |-> "title",
      s |-> clean_text(<<"Simarjit Kaur - Weekly Report (Week ">> \o NatToText(week_no)
                         \o <<")">>)] >>
  \o [i \in 1..Len(df) |-> [k |-> "text", s |-> clean_text(RowTextV1(df[i]))]]

\* df_show.drop(columns=["Week"]).to_excel(writer, sheet_name=f"Week{week_no}")
ExcelWeek(df_show, week_no) ==
  << [name |-> <<"Week">> \o NatToText(week_no),
      header |-> ExportColumns,
      rows |-> [i \in 1..Len(df_show) |-> SheetRow(df_show[i])]] >>

ShownV1(df_show, events, week_no, day_fil) ==
  [events |-> events,
   weekly |-> TRUE,
   display |-> [n \in 1..Len(df_show) |-> [index |-> n - 1, row |-> df_show[n],
                                            completed |-> <<>>]],
   excel |-> ExcelWeek(df_show, week_no),
   pdf |-> generate_pdf_v1(df_show, week_no),
   filter |-> [week_no |-> week_no, day_fil |-> day_fil]]

WeeklyV1Of(df, events, week_no, day_fil) ==
  IF \E i \in 1..Len(df) : df[i].subtasks = <<"<JSONDecodeError>">>
    THEN [events |-> Append(events, "exception:JSONDecodeError"), weekly |-> FALSE,
          display |-> <<>>, excel |-> <<>>, pdf |-> <<>>,
          filter |-> [week_no |-> week_no, day_fil |-> day_fil]]
    ELSE ShownV1(FilterWeekDay(df, week_no, day_fil), events, week_no, day_fil)

\* tab2 of the older revision
WeeklyPageV1(tbl, events, week_no, day_fil) ==
  IF tbl = <<>>
    THEN [events |-> Append(events, "info:no_records"), weekly |-> FALSE,
          display |-> <<>>, excel |-> <<>>, pdf |-> <<>>,
          filter |-> [week_no |-> week_no, day_fil |-> day_fil]]
    ELSE WeeklyV1Of(DfV1(tbl), events, week_no, day_fil)

SubmitBuiltV1(tbl, f, b, week_no, day_fil) ==
  IF ReasonMissing(b)
    THEN [reports |-> tbl,
          page |-> WeeklyPageV1(tbl, <<"error:reason">>, week_no, day_fil)]
    ELSE [reports |-> InsertRow(tbl, RowOf(f, b)),
          page |-> WeeklyPageV1(InsertRow(tbl, RowOf(f, b)), <<"insert", "success:saved">>,
                                week_no, day_fil)]

\* the run of the older revision in which the submit button is pressed
HandleSubmitV1(tbl, f, week_no, day_fil) ==
  SubmitBuiltV1(tbl, f, BuildReportV1(f), week_no, day_fil)

\* dates of ISO week 29 of 2024, week 29 of 2025 (both Mondays) and week 30 of 2025
DatesV1 == {<<2024, 7, 15>>, <<2025, 7, 14>>, <<2025, 7, 22>>}

\* the weeks the "Select Week #" box is set to
WeekChoices == {1, 29, 30}

DayChoices == {"All", "Monday"}

InitV1 ==
  /\ reports = <<>>
  /\ lastOp = "start"
  /\ before = <<>>
  /\ form = NoForm
  /\ selected = {}
  /\ page = [events |-> <<>>, weekly |-> FALSE, display |-> <<>>, excel |-> <<>>,
             pdf |-> <<>>, filter |-> NoFilter]
  /\ schema = Columns

SubmitV1 ==
  /\ Len(reports) < MaxRows
  /\ \E d \in DatesV1 :
       \E f \in FormsFor(d, 0, PerTask({{1, 2, 3, 4}}, Reasons), {<<"shelves">>}, {<<>>}) :
         Ran("submit", f, {}, HandleSubmitV1(reports, f, 29, "All"))

ViewV1 ==
  \E week_no \in WeekChoices, day_fil \in DayChoices :
    Ran("view", NoForm, {},
        [reports |-> reports, page |-> WeeklyPageV1(reports, <<>>, week_no, day_fil)])

NextV1 == SubmitV1 \/ ViewV1

SpecV1 == InitV1 /\ [][NextV1]_vars

(* ---------------- init_db on any store (SpecSchema) ------------------ *)
\* rows a store can hold: from before the subtasks column carried JSON, and with
\* other dates
SchemaRows ==
  {LegacyRow(x) : x \in LegacySubtasks}
    \cup {[LegacyRow(<<"{", "}">>) EXCEPT !.date = FormatDate(d), !.notes = n] :
            d \in WeekdayDates, n \in {None, <<"ok">>}}

Project(row, cols) == [c \in Range(cols) |-> row[c]]

TablesOver(cols) ==
  UNION {[1..n -> {Project(r, cols) : r \in SchemaRows}] : n \in 0..MaxRows}

\* no table, a table from before the subtasks column, a table with it
InitSchema ==
  /\ schema \in {<<>>, SubSeq(Columns, 1, 7), Columns}
  /\ reports \in (IF schema = <<>> THEN {<<>>} ELSE TablesOver(schema))
  /\ lastOp = "start"
  /\ before = reports
  /\ form = schema
  /\ selected = {}
  /\ page = [events |-> <<>>, weekly |-> FALSE, display |-> <<>>, excel |-> <<>>,
             pdf |-> <<>>, filter |-> NoFilter]

Started(db) ==
  /\ lastOp' = "init_db"
  /\ before' = reports
  /\ form' = schema
  /\ reports' = db.rows
  /\ schema' = db.schema
  /\ UNCHANGED <<selected, page>>

\* a process start: init_db()
InitDb == Started(init_db([schema |-> schema, rows |-> reports]))

NextSchema == InitDb

SpecSchema == InitSchema /\ [][NextSchema]_vars

(* ------------- git_autobackup.backup_to_git (SpecBackup) -------------- *)
\* the run of backup_to_git in a world w: w.env the environment variables that
\* are set, w.failing the git commands that exit non-zero, w.diff the exit code
\* of git diff --staged --quiet.  steps are the commands run, in order.
Ended(steps, outcome) == [events |-> steps, outcome |-> outcome]

\* commit, then the tokenized URL, then push
CommitAndPush(w, steps) ==
  IF "commit" \in w.failing THEN Ended(Append(steps, "commit"), "CalledProcessError")
  ELSE IF ~({"REPO_URL", "GIT_TOKEN"} \subseteq w.env)
    THEN Ended(Append(steps, "commit"), "KeyError")
  ELSE IF "push" \in w.failing
    THEN Ended(steps \o <<"commit", "push">>, "CalledProcessError")
  ELSE Ended(steps \o <<"commit", "push">>, "returned")

\* git add, then git diff --staged --quiet with check=False
StageAndCheck(w, steps) ==
  IF "add" \in w.failing THEN Ended(Append(steps, "add"), "CalledProcessError")
  ELSE IF w.diff = 0 THEN Ended(steps \o <<"add", "diff">>, "no_changes")
  ELSE CommitAndPush(w, steps \o <<"add", "diff">>)

\* git config user.name and user.email from the environment
Configure(w, steps) ==
  IF "GIT_USER" \notin w.env THEN Ended(steps, "KeyError")
  ELSE IF "config_name" \in w.failing
    THEN Ended(Append(steps, "config_name"), "CalledProcessError")
  ELSE IF "GIT_EMAIL" \notin w.env THEN Ended(Append(steps, "config_name"), "KeyError")
  ELSE IF "config_email" \in w.failing
    THEN Ended(steps \o <<"config_name", "config_email">>, "CalledProcessError")
  ELSE StageAndCheck(w, steps \o <<"config_name", "config_email">>)

backup_to_git(w) ==
  IF "pull" \in w.failing THEN Ended(<<"pull">>, "CalledProcessError")
  ELSE Configure(w, <<"pull">>)

\* exit codes of git diff --staged --quiet: nothing staged, changes staged, error
DiffCodes == {0, 1, 128}

Worlds ==
  [env : SUBSET {"GIT_USER", "GIT_EMAIL", "REPO_URL", "GIT_TOKEN"},
   failing : {{}} \cup {{c} : c \in {"pull", "config_name", "config_email", "add",
                                      "commit", "push"}},
   diff : DiffCodes]

InitBackup ==
  /\ form \in Worlds
  /\ lastOp = "start"
  /\ reports = <<>>
  /\ before = <<>>
  /\ selected = {}
  /\ page = Ended(<<>>, "start")
  /\ schema = Columns

Backup ==
  /\ lastOp = "start"
  /\ lastOp' = "backup"
  /\ page' = backup_to_git(form)
  /\ UNCHANGED <<reports, before, form, selected, schema>>

NextBackup == Backup

SpecBackup == InitBackup /\ [][NextBackup]_vars

(* ------------------- import_reports.py (SpecImport) ------------------- *)
\* a sheet is a sequence of [Field, Value] rows; None is an empty cell (NaN)
\* str.lower() of the pieces a Field is written with
LowerPiece(c) == IF c \in {"Date", "DATE"} THEN "date" ELSE c

Lower(t) == [i \in 1..Len(t) |-> LowerPiece(t[i])]

\* str(row["Field"]).strip(): an empty cell reads "nan"
FieldOf(row) == Strip(IF row.Field = None THEN <<"nan">> ELSE row.Field)

\* "" if pd.isna(value) else str(value)
ValueOf(row) == [t |-> "str", v |-> IF row.Value = None THEN <<>> ELSE row.Value]

\* if current: records.append(current)
Flush(records, current) == IF current.v # <<>> THEN Append(records, current) ELSE records

RECURSIVE LoadRows(_, _, _, _)
\* a row is taken for the start of a record only when it is written "date"
LoadRowExact(rows, i, records, current) ==
  IF FieldOf(rows[i]) = <<"date">>
    THEN LoadRows(rows, i + 1, Flush(records, current),
                  DictSet(EmptyDict, FieldOf(rows[i]), ValueOf(rows[i])))
    ELSE LoadRows(rows, i + 1, records, DictSet(current, FieldOf(rows[i]), ValueOf(rows[i])))

\* the body of the loop over the rows
LoadRow(rows, i, records, current) ==
  IF Lower(FieldOf(rows[i])) = <<"date">>
    THEN LoadRows(rows, i + 1, Flush(records, current),
                  DictSet(EmptyDict, FieldOf(rows[i]), ValueOf(rows[i])))
    ELSE LoadRows(rows, i + 1, records, DictSet(current, FieldOf(rows[i]), ValueOf(rows[i])))

LoadRows(rows, i, records, current) ==
  IF i > Len(rows) THEN Flush(records, current) ELSE LoadRow(rows, i, records, current)

load_vertical_sheet(df_sheet) == LoadRows(df_sheet, 1, <<>>, EmptyDict)

\* pd.DataFrame(all_records)[c], or "" in every row when no record has the field
ColumnCell(all_records, rec, c) ==
  IF \A k \in 1..Len(all_records) : ~HasKey(all_records[k], c) THEN <<>>
  ELSE IF HasKey(rec, c) THEN DictGet(rec, c, EmptyDict).v
  ELSE None

\* pd.to_datetime(...).dt.strftime("%Y-%m-%d") of one cell
NormalDate(x) == IF ToDatetime(x) = NaT THEN None ELSE FormatDate(ToDatetime(x))

ImportedRow(all_records, rec) ==
  [c \in Range(Columns) |->
     IF c = "date" THEN NormalDate(ColumnCell(all_records, rec, <<c>>))
     ELSE ColumnCell(all_records, rec, <<c>>)]

\* a write that keeps the rows of the table, as if_exists="append" does
ToSqlAppend(tbl, rows) == tbl \o rows

\* df.to_sql("reports", conn, if_exists="replace", index=False)
ToSqlReplace(tbl, rows) == rows

\* main(): the table after the import of the workbook xls and what was parsed
ImportParsed(tbl, parsed) ==
  [reports |-> ToSqlReplace(tbl, [k \in 1..Len(Concat(parsed)) |->
                                    ImportedRow(Concat(parsed), Concat(parsed)[k])]),
   page |-> [events |-> <<"imported">>, parsed |-> parsed]]

main(tbl, xls) == ImportParsed(tbl, [n \in 1..Len(xls) |-> load_vertical_sheet(xls[n])])

SheetRows ==
  {[Field |-> <<"date">>, Value |-> FormatDate(<<2025, 7, 14>>)],
   [Field |-> <<" ", "Date">>, Value |-> FormatDate(<<2025, 7, 22>>)],
   [Field |-> <<"notes">>, Value |-> <<"a">>],
   [Field |-> <<"notes">>, Value |-> <<"b">>],
   [Field |-> <<"day">>, Value |-> <<"Monday">>],
   [Field |-> None, Value |-> None]}

Sheets(n) == UNION {[1..k -> SheetRows] : k \in 1..n}

\* workbooks of one sheet, or of two with a second sheet of one report
Workbooks ==
  {<<sh>> : sh \in Sheets(MaxSheetRows)}
    \cup {<<sh, << [Field |-> <<"date">>, Value |-> FormatDate(<<2025, 7, 22>>)],
                   [Field |-> <<"notes">>, Value |-> <<"b">>] >> >> :
            sh \in Sheets(MaxSheetRows)}

InitImport ==
  /\ form \in Workbooks
  /\ reports \in InitialTables
  /\ lastOp = "start"
  /\ before = reports
  /\ selected = {}
  /\ page = [events |-> <<>>, parsed |-> <<>>]
  /\ schema = Columns

Import ==
  /\ lastOp = "start"
  /\ Ran("import", form, {}, main(reports, form))

NextImport == Import

SpecImport == InitImport /\ [][NextImport]_vars

(* ------------------------------ claims -------------------------------- *)
OnlyWhitespace(t) == \A i \in 1..Len(t) : t[i] \in {" ", "\n", "\t"}

\* the submitted form has an incomplete entry whose reason is empty or white space
HasBlankReason(b) ==
  \E i \in 1..Len(b.incomplete.v) : OnlyWhitespace(b.incomplete.v[i].val.v)

IsPrefix(s, t) == Len(s) <= Len(t) /\ SubSeq(t, 1, Len(s)) = s

\* C1: a submission in which some incomplete task has an empty or whitespace-only
\* reason ends with a validation error and leaves the reports table as it was.
C1_BlankReasonRejected ==
  (lastOp = "submit" /\ HasBlankReason(BuildReport(form)))
    => /\ reports = before
       /\ page.events \in {<<"error:reason">>, <<"error:required">>}

\* a white-space reason next to a stored row was rejected
C1_Witness ==
  /\ lastOp = "submit"
  /\ \E i \in 1..Len(form.inputs) : form.inputs[i].done /\ form.inputs[i].reason = <<" ">>
  /\ page.events = <<"error:reason">>
  /\ Len(reports) > 0

\* the rows the chosen delete options stand for
SelectedRows == {before[CleanIndex(Df(before))[n]] : n \in selected}

\* C2: deleting selected rows removes every stored row with the (date, day, name)
\* of a selected row and no other; the rest keep contents and order.
C2_DeleteRemovesTriple ==
  lastOp = "delete"
    => reports = SelectSeq(before, LAMBDA r : ~\E q \in SelectedRows : SameTriple(r, q))

AcceptedForm(f) ==
  /\ BuildReport(f).completed # <<>>
  /\ ~HasBlankReason(BuildReport(f))

\* C3: an accepted submission appends exactly one row, duplicates of date and
\* reporter included, and no submit or view run changes a row stored before.
C3_AppendOnly ==
  [][ (lastOp' \in {"submit", "view"})
        => /\ IsPrefix(reports, reports')
           /\ (lastOp' = "submit" /\ AcceptedForm(form'))
                => /\ Len(reports') = Len(reports) + 1
                   /\ reports'[Len(reports')].date = FormatDate(form'.date)
                   /\ reports'[Len(reports')].notes = form'.notes
           /\ (lastOp' = "view" \/ ~AcceptedForm(form')) => reports' = reports ]_vars

\* a second report for a date and reporter already stored was appended
C3_Witness ==
  /\ lastOp = "submit"
  /\ Len(reports) = Len(before) + 1
  /\ \E i \in 1..Len(before) :
       /\ before[i].date = reports[Len(reports)].date
       /\ before[i].name = reports[Len(reports)].name

\* C4: the backup runs only after the row is written, never after a rejected
\* submission, and a failing backup is reported and leaves the new row stored.
C4_BackupAfterWrite ==
  lastOp = "submit"
    => /\ (\E j \in 1..Len(page.events) : page.events[j] = "backup")
            => /\ Len(reports) = Len(before) + 1
               /\ SubSeq(reports, 1, Len(before)) = before
               /\ \E i, j \in 1..Len(page.events) :
                    i < j /\ page.events[i] = "insert" /\ page.events[j] = "backup"
       /\ ~AcceptedForm(form) => \A j \in 1..Len(page.events) : page.events[j] # "backup"
       /\ AcceptedForm(form) => \E j \in 1..Len(page.events) : page.events[j] = "backup"
       /\ (\E j \in 1..Len(page.events) : page.events[j] = "error:backup_failed")
            => /\ Len(reports) = Len(before) + 1
               /\ reports[Len(reports)].date = FormatDate(form.date)

\* a backup failed after a row was added to a non-empty table
C4_Witness ==
  /\ lastOp = "submit"
  /\ page.events = <<"insert", "success:saved", "backup", "error:backup_failed">>
  /\ Len(before) > 0
  /\ Len(reports) = Len(before) + 1

\* C5: the reports shown together for a selected week all have the same ISO
\* (year, week) pair, so equal week numbers of different years are kept apart.
C5_GroupByIsoYearWeek ==
  page.weekly
    => \A i, j \in 1..Len(page.display) :
         IsoCalendar(page.display[i].row.Date) = IsoCalendar(page.display[j].row.Date)

\* the ISO (year, week) pairs of the stored reports
StoredIsoWeeks == {IsoCalendar(ToDatetime(reports[i].date)) : i \in 1..Len(reports)}

\* C6: the spreadsheet export has exactly one sheet per distinct ISO (year, week)
\* among the stored reports.
C6_OneSheetPerIsoWeek ==
  (page.weekly /\ page.excel # <<>>) => Len(page.excel) = Cardinality(StoredIsoWeeks)

\* the stored subtasks value is NULL, empty or no JSON text
NoSubtasks(x) == x = None \/ x = <<>> \/ ~JsonLoads(x).ok

DatePositions(pdf) == SelectSeq([i \in 1..Len(pdf) |-> i], LAMBDA i : pdf[i].k = "date")

SectionAt(pdf, pos, n) ==
  SubSeq(pdf, pos[n], IF n < Len(pos) THEN pos[n + 1] - 1 ELSE Len(pdf))

\* the cells of the n-th report of the document
SectionOf(pdf, n) == SectionAt(pdf, DatePositions(pdf), n)

CellsOfKind(cells, k) == SelectSeq(cells, LAMBDA c : c.k = k)

EntryOf(e) == <<"-", " ">> \o e.key \o <<":", " ">> \o e.val.v

\* C8: the document shows one "task: reason" entry for every entry of the
\* incomplete mapping of a report stored by an accepted submission.
C8_IncompleteEntriesRendered ==
  (lastOp = "submit" /\ Len(reports) = Len(before) + 1
     /\ BuildReport(form).incomplete.v # <<>>)
    => CellsOfKind(SectionOf(page.pdf, Len(reports)), "entry")
         = [i \in 1..Len(BuildReport(form).incomplete.v) |->
              [k |-> "entry", s |-> EntryOf(BuildReport(form).incomplete.v[i])]]

AllFour(in) == in.checks = {1, 2, 3, 4}

\* C9: in the report built from a form the keys of subtasks are completed tasks,
\* and a task is a key of incomplete_tasks exactly when it was marked not done or
\* done with fewer than four sub-items confirmed.
C9_BuiltReportShape ==
  lastOp = "submit"
    => /\ Range(Keys(BuildReport(form).task_subtasks)) \subseteq Range(BuildReport(form).completed)
       /\ \A i \in 1..Len(form.inputs) :
            /\ HasKey(BuildReport(form).incomplete, TasksOf(DayName(form.date))[i])
                 <=> (~form.inputs[i].done \/ ~AllFour(form.inputs[i]))
            /\ (form.inputs[i].done /\ AllFour(form.inputs[i]))
                 => TasksOf(DayName(form.date))[i] \in Range(BuildReport(form).completed)
       /\ Len(reports) = Len(before) + 1
            => Range(Keys(JsonLoads(reports[Len(reports)].subtasks).val))
                 \subseteq Range(CompletedList(reports[Len(reports)].completed_tasks))

\* a stored report with one task done in part and the others done in full
C9_Witness ==
  /\ lastOp = "submit"
  /\ Len(reports) = 1
  /\ form.inputs[1].done
  /\ form.inputs[1].checks = {1, 3}
  /\ AllFour(form.inputs[2])
  /\ Len(BuildReport(form).incomplete.v) = 1

\* C10: decoding the stored subtasks text gives back the mapping that was
\* encoded: the same tasks, each with the same sub-items in the same order.
C10_SubtasksRoundTrip ==
  (lastOp = "submit" /\ Len(reports) = Len(before) + 1)
    => /\ JsonLoads(reports[Len(reports)].subtasks).ok
       /\ JsonLoads(reports[Len(reports)].subtasks).val = BuildReport(form).task_subtasks
       /\ LoadSubs(page.display[Len(reports)].row.subtasks) = BuildReport(form).task_subtasks

\* a mapping with a two-item list and four-item lists went through the store
C10_Witness ==
  /\ lastOp = "submit"
  /\ Len(reports) = 1
  /\ DictGet(BuildReport(form).task_subtasks, TasksOf(DayName(form.date))[1], EmptyDict).v
       = StrList(<<default_subs[1], default_subs[3]>>).v
  /\ Len(BuildReport(form).task_subtasks.v) > 1

\* C11: a call of init_db leaves a reports table with the subtasks column and
\* keeps every stored row, field by field, and a second call changes nothing.
C11_InitDbIdempotent ==
  [][ lastOp' = "init_db"
        => /\ schema' # <<>>
           /\ "subtasks" \in Range(schema')
           /\ Len(reports') = Len(reports)
           /\ \A i \in 1..Len(reports) :
                \A c \in DOMAIN reports[i] : reports'[i][c] = reports[i][c]
           /\ lastOp = "init_db" => (reports' = reports /\ schema' = schema) ]_vars

\* a table of two rows without the subtasks column was started twice
C11_Witness ==
  /\ lastOp = "init_db"
  /\ form = Columns
  /\ before = reports
  /\ Len(reports) = 2
  /\ reports[1].subtasks = None
  /\ reports[1].notes = None

StoredDate(n) == ToDatetime(reports[n].date)

\* C12: in a document of reports in ascending date order a second, heavier
\* divider stands between two consecutive reports of different ISO weeks, and
\* only the plain divider between two reports of the same ISO week.
C12_HeavyDividerBetweenWeeks ==
  (lastOp \in {"view", "submit"} /\ page.weekly /\ Len(DatePositions(page.pdf)) = Len(reports))
    => \A n \in 2..Len(reports) :
         ToOrdinal(StoredDate(n - 1)) <= ToOrdinal(StoredDate(n))
           => Len(CellsOfKind(SectionOf(page.pdf, n - 1), "divider"))
                = (IF IsoCalendar(StoredDate(n - 1)) # IsoCalendar(StoredDate(n)) THEN 2 ELSE 1)

\* pieces that the document's encoding, Latin-1, cannot hold
Unsupported == {CheckMark, Bullet, "U+0301"}

\* C13: no text of a cell of the document holds a character outside the
\* encoding the document supports.
C13_DocumentTextSanitized ==
  \A i \in 1..Len(page.pdf) : Range(page.pdf[i].s) \cap Unsupported = {}

StepOrder == <<"pull", "config_name", "config_email", "add", "diff", "commit", "push">>

\* the step exited with an error
StepFailed(c) == c \in form.failing \/ (c = "diff" /\ form.diff \notin {0, 1})

\* C14: backup_to_git runs sync, configure, stage, check, commit, push in this
\* order; it commits only when changes are staged, pushes only after a commit
\* that succeeded, ends with "nothing to back up" when nothing is staged, and a
\* failing step raises and is the last step of the run.
C14_BackupStepsInOrder ==
  lastOp = "backup"
    => /\ IsPrefix(page.events, StepOrder)
       /\ "commit" \in Range(page.events) => form.diff = 1
       /\ "push" \in Range(page.events) => "commit" \notin form.failing
       /\ (form.diff = 0 /\ "diff" \in Range(page.events))
            => (page.outcome = "no_changes" /\ "commit" \notin Range(page.events))
       /\ \A i \in 1..Len(page.events) :
            StepFailed(page.events[i])
              => (i = Len(page.events) /\ page.outcome = "CalledProcessError")

IsDateRow(row) == Lower(FieldOf(row)) = <<"date">>

\* the rows at which a record starts: the first row and every "date" row
Starts(rows) == SelectSeq([i \in 1..Len(rows) |-> i], LAMBDA i : i = 1 \/ IsDateRow(rows[i]))

RunEnd(rows, starts, k) == IF k < Len(starts) THEN starts[k + 1] - 1 ELSE Len(rows)

\* the last row up to end that has the field of row j
LastSame(rows, j, end) ==
  CHOOSE m \in j..end :
    /\ FieldOf(rows[m]) = FieldOf(rows[j])
    /\ \A q \in (m + 1)..end : FieldOf(rows[q]) # FieldOf(rows[j])

\* the records of a sheet are its runs, in order, and run k holds what Kept says
RunsAre(rows, recs, starts, Kept(_, _, _, _)) ==
  /\ Len(recs) = Len(starts)
  /\ \A k \in 1..Len(starts) :
       /\ Range(Keys(recs[k]))
            = {FieldOf(rows[j]) : j \in starts[k]..RunEnd(rows, starts, k)}
       /\ \A j \in starts[k]..RunEnd(rows, starts, k) :
            Kept(rows, recs[k], j, RunEnd(rows, starts, k))

KeptAsWritten(rows, rec, j, end) ==
  DictGet(rec, FieldOf(rows[j]), EmptyDict) = ValueOf(rows[j])

KeptUnlessRepeated(rows, rec, j, end) ==
  DictGet(rec, FieldOf(rows[j]), EmptyDict) = ValueOf(rows[LastSame(rows, j, end)])

\* C15 as stated: a record starts at the first row and at every "date" row
\* (trimmed, any case), records come in sheet order, and every row of a run is
\* in its record with the value it has in the sheet.
C15_EveryRowKept ==
  lastOp = "import"
    => \A n \in 1..Len(form) :
         RunsAre(form[n], page.parsed[n], Starts(form[n]), KeptAsWritten)

\* C15, amended: as above, except that of the rows of one run that have the same
\* field the record holds the value of the last one.
C15_LastOfRepeatedFieldKept ==
  lastOp = "import"
    => \A n \in 1..Len(form) :
         RunsAre(form[n], page.parsed[n], Starts(form[n]), KeptUnlessRepeated)

\* a sheet whose record starts at " Date" and holds notes twice: the later value
\* is the one in the record
C15_Witness ==
  /\ lastOp = "import"
  /\ Len(form[1]) = 3
  /\ FieldOf(form[1][1]) = <<"Date">>
  /\ form[1][2].Value = <<"a">>
  /\ form[1][3].Value = <<"b">>
  /\ Len(page.parsed[1]) = 1
  /\ DictGet(page.parsed[1][1], <<"notes">>, EmptyDict).v = <<"b">>

\* the records parsed from all sheets of the workbook, in sheet order
AllParsed == Concat(page.parsed)

\* C16: after an import the table holds one row per record parsed from the
\* workbook, in sheet order and with the record's values, and no row that was
\* stored before the import.
C16_ImportReplaces ==
  lastOp = "import"
    => /\ Len(reports) = Len(AllParsed)
       /\ \A k \in 1..Len(reports) :
            \A i \in 1..Len(Columns) :
              HasKey(AllParsed[k], <<Columns[i]>>)
                => reports[k][Columns[i]] = DictGet(AllParsed[k], <<Columns[i]>>, EmptyDict).v
       /\ \A i \in 1..Len(before) :
            (\A k \in 1..Len(AllParsed) :
               DictGet(AllParsed[k], <<"name">>, EmptyDict).v # before[i].name)
              => \A k \in 1..Len(reports) : reports[k] # before[i]

\* a stored row was replaced by the two records of a two-sheet workbook
C16_Witness ==
  /\ lastOp = "import"
  /\ Len(before) = 1
  /\ Len(form) = 2
  /\ Len(reports) = 2
  /\ reports[1].date = FormatDate(<<2025, 7, 14>>)
  /\ reports[2].notes = <<"b">>
  /\ \A k \in 1..Len(reports) : reports[k] # before[1]

====
